---- MODULE Spec2Model ----
(***************************************************************************)
(* Verification model of the Mandelbrot renderer.                          *)
(*                                                                         *)
(*   SpecCpu   cpu::render (src/src/cpu.rs): the banded parallel renderer, *)
(*             one step per rendered row, workers and caller interleaved.  *)
(*   SpecGpu   Wgpu::render (src/src/gpu.rs): the map_async callback and   *)
(*             the host thread around the mutex / condvar handoff.         *)
(*   SpecGpuFair  SpecGpu with threads that are scheduled.                 *)
(*   SpecPack  the RGBA -> 0RGB repack loops of gpu.rs and main.rs.        *)
(*   SpecInline  the GPU branch of the RedrawRequested handler of main.rs. *)
(*   SpecApp   the camera fields of InnerApp under the input events.       *)
(*   SpecPartition  the partition of cpu::render into bands, as a function *)
(*             of the height and the detected thread count.                *)
(*   SpecFn    escape_time, pixel_to_view and the pixel packing of cpu.rs, *)
(*             called on inputs drawn from bounded sets.                   *)
(*                                                                         *)
(* Complex<f32> values are modelled as pairs of integers <<re, im>>, in a   *)
(* unit that is a power of two: 1 for the renderers and for escape_time,   *)
(* 2^-FractionBits for the calls of pixel_to_view on its own. The result   *)
(* of an f32 operation is rounded to 24 significant bits (RoundF32); on    *)
(* the integer-valued points the renderers are given, no rounding occurs.  *)
(***************************************************************************)
EXTENDS Integers, Sequences, FiniteSets, TLC

(***************************************************************************)
(* Bounds of the model.                                                    *)
(***************************************************************************)
\* widths of the window are 1..MaxWidth
MaxWidth == 2
\* the tallest window has MaxExtraRows rows more than two bands of the floor height
MaxExtraRows == 1
\* std::thread::available_parallelism() reports 1..MaxParallelism, or fails
MaxParallelism == 1
\* render calls made by the caller's redraw loop
MaxCalls == 2
\* escape_time is called on the points with integer coordinates -MaxCoordinate..MaxCoordinate
MaxCoordinate == 3
\* and with the limits 0..MaxSmallLimit besides the limit of render_chunk
MaxSmallLimit == 4
\* pixel_to_view is called on values that are whole multiples of 2^-FractionBits
FractionBits == 26
\* the wheel turns by 1 line or by MaxLines lines at once, either way
MaxLines == 100
\* the centre is followed while it is within MaxPan half units of the origin
MaxPan == 2
\* the partition into bands is computed for 1..MaxThreads detected threads
MaxThreads == 52

(***************************************************************************)
(* Program constants.                                                      *)
(***************************************************************************)
\* cpu.rs:57  Err(_) => 4
DEFAULT_THREADS == 4
\* cpu.rs:59  max(height / thread_count, 50)
MIN_BAND_HEIGHT == 50
\* cpu.rs:88  escape_time(point, 256)
ESCAPE_LIMIT == 256
\* cpu.rs:35  f32: a significand of 24 bits
MANTISSA_BITS == 24
\* main.rs:438  zoom_step.clamp(1.0f32, 60f32)
MIN_ZOOM_STEP == 1
MAX_ZOOM_STEP == 60
\* zoom is counted in hundredths: 0.01 is 1 and 0.99 is 99 (main.rs:443)
ZOOM_UNIT == 100
\* main.rs:42  with_inner_size(LogicalSize::new(1024.0, 768.0))
WINDOW_INNER_SIZE == <<1024, 768>>

VARIABLES
    \* ---- cpu::render ----
    window_resolution,  \* <<width, height>>
    upper_left,         \* <<re, im>>
    view_resolution,    \* <<real extent, imaginary extent>>
    pixels,             \* the caller's buffer: index (0-based) -> u32
    cpu_pc,             \* position of the calling thread in cpu::render
    parallelism,        \* what available_parallelism() returned for this call
    band_height,        \* cpu.rs:59
    bands,              \* cpu.rs:62-64: sequence of [lo, len] slices of pixels
    next_band,          \* cpu.rs:103: the enumerate() cursor (0-based)
    chunk,              \* band_i -> state of its render_chunk invocation
    writers,            \* buffer index -> band_i's that wrote it in this call
    cpu_calls,          \* render calls started
    first_frame,        \* the first completed call: its frame and its number of bands
    \* ---- Wgpu::render ----
    gpu_pc,             \* position of the host thread in Wgpu::render
    gpu_calls,          \* render calls started; the current call's number
    buffer,             \* the caller's pixel buffer: index (0-based) -> u32
    result_signal,      \* call -> the Option in the Mutex of its result_signal
    lock_holder,        \* call -> who holds that Mutex: "free", "host", "callback"
    callback,           \* call -> [pc, result] of its map_async callback
    output_staging_buffer, \* call -> [state, bytes] of its staging buffer
    woken,              \* the host's condvar.wait has been woken
    mapping_result,     \* the host's local of gpu.rs:246
    view,               \* the host's mapped range (gpu.rs:253)
    buffer_index,       \* the cursor of the repack loop (gpu.rs:271)
    stderr,             \* the calls that wrote "failed to map texture"
    returned_value,     \* call -> what render returned to its caller
    accesses,           \* call -> the accesses to its Option: [by, kind, holder]
    storage_texture,    \* gpu.rs:65-79: <<width, height>>, the window_resolution passed
    \* ---- the repack loops ----
    texture_resolution, \* <<width, height>> of the texture read back
    texture_data,       \* the RGBA bytes read back: index (0-based) -> u8
    repacked,           \* the buffer filled by the loop of gpu.rs:271-276
    shifted,            \* the buffer filled by the loop of main.rs:327-338
    pack_pc,            \* which loop runs
    pack_index,         \* the loop's cursor, a pixel number
    \* ---- the pure functions of cpu.rs, called on their own ----
    fn_pc,              \* "call", "returned", "stored"
    fn_args,            \* the function called and its arguments
    fn_ret,             \* what it returned
    \* ---- the GPU branch of RedrawRequested, main.rs:110-340 ----
    inline_pc,          \* position of the event loop thread in the branch
    redraws,            \* redraws started
    inline_callback,    \* the map_async closure of this redraw: "none", "pending", "Ok", "Err"
    inline_staging_buffer, \* [state, bytes] of this redraw's output_staging_buffer
    inline_texture_data,   \* main.rs:116-120, 318: the local copy of the texture
    presented,          \* the frames handed to buffer.present()
    \* ---- InnerApp and the event handlers of main.rs ----
    event_loop,         \* "running", or "panicked" (main.rs:445)
    render_with_gpu,
    focused,
    in_window,
    left_mouse,         \* "Pressed" or "Released"
    center_point,       \* <<x, y>> in half units, rounded toward zero
    zoom,               \* in hundredths
    zoom_step           \* in lines of the wheel

cpu_vars == <<window_resolution, upper_left, view_resolution, pixels, cpu_pc,
              parallelism, band_height, bands, next_band, chunk, writers,
              cpu_calls, first_frame>>

gpu_vars == <<gpu_pc, gpu_calls, buffer, result_signal, lock_holder, callback,
              output_staging_buffer, woken, mapping_result, view, buffer_index,
              stderr, returned_value, accesses, storage_texture>>

pack_vars == <<texture_resolution, texture_data, repacked, shifted, pack_pc,
               pack_index>>

fn_vars == <<fn_pc, fn_args, fn_ret>>

inline_vars == <<inline_pc, redraws, inline_callback, inline_staging_buffer,
                 inline_texture_data, presented>>

app_vars == <<event_loop, render_with_gpu, focused, in_window, left_mouse,
              center_point, zoom, zoom_step>>

vars == <<cpu_vars, gpu_vars, pack_vars, fn_vars, inline_vars, app_vars>>

\* what the steps of one component leave alone
not_cpu_vars == <<gpu_vars, pack_vars, fn_vars, inline_vars, app_vars>>

not_gpu_vars == <<cpu_vars, pack_vars, fn_vars, inline_vars, app_vars>>

not_pack_vars == <<cpu_vars, gpu_vars, fn_vars, inline_vars, app_vars>>

not_fn_vars == <<cpu_vars, gpu_vars, pack_vars, inline_vars, app_vars>>

not_inline_vars == <<cpu_vars, gpu_vars, pack_vars, fn_vars, app_vars>>

not_app_vars == <<cpu_vars, gpu_vars, pack_vars, fn_vars, inline_vars>>

(***************************************************************************)
(* u32 helpers.                                                            *)
(***************************************************************************)
Max(a, b) == IF a >= b THEN a ELSE b

Min(a, b) == IF a <= b THEN a ELSE b

RECURSIVE BitOr(_, _)
\* a | b on non-negative integers
BitOr(a, b) ==
    IF a = 0 THEN b
    ELSE IF b = 0 THEN a
    ELSE 2 * BitOr(a \div 2, b \div 2) + Max(a % 2, b % 2)

\* x << n on u32: bits shifted past bit 31 are lost
Shl(x, n) == (x % (2 ^ (32 - n))) * (2 ^ n)

(***************************************************************************)
(* f32 rounding, on values counted in a power-of-two unit.                 *)
(***************************************************************************)
Abs(n) == IF n < 0 THEN -n ELSE n

RECURSIVE BitLength(_)
\* the number of significant bits of n >= 0
BitLength(n) == IF n = 0 THEN 0 ELSE 1 + BitLength(n \div 2)

\* the nearest value with MANTISSA_BITS significant bits, ties to the even one
\* (no overflow and no subnormal among the values drawn)
RoundF32(n) ==
    LET a == Abs(n)
        len == BitLength(a)
        quantum == IF len <= MANTISSA_BITS THEN 1 ELSE 2 ^ (len - MANTISSA_BITS)
        low == (a \div quantum) * quantum
        rest == a - low
        up == 2 * rest > quantum \/ (2 * rest = quantum /\ (a \div quantum) % 2 = 1)
        r == IF up THEN low + quantum ELSE low
    IN  IF n < 0 THEN -r ELSE r

(***************************************************************************)
(* cpu.rs: escape_time, pixel_to_view, pixel value.                        *)
(***************************************************************************)
None == [some |-> FALSE, count |-> 0]

Some(i) == [some |-> TRUE, count |-> i]

\* Complex::norm_sqr
NormSqr(z) == z[1] * z[1] + z[2] * z[2]

\* mutant: z * z, the point is never added
StepWithoutC(z, c) == <<z[1] * z[1] - z[2] * z[2], 2 * z[1] * z[2]>>

\* z * z + c
Step(z, c) == <<z[1] * z[1] - z[2] * z[2] + c[1], 2 * z[1] * z[2] + c[2]>>

\* the state of the loop of escape_time
LoopStart == [z |-> <<0, 0>>, i |-> 0, result |-> None, returned |-> FALSE]

\* mutant: the bailout radius is 1
EscapeIterationRadiusOne(st, c) ==
    IF st.returned THEN st
    ELSE IF NormSqr(st.z) >= 1
         THEN [st EXCEPT !.result = Some(st.i), !.returned = TRUE]
         ELSE [st EXCEPT !.z = Step(st.z, c), !.i = st.i + 1]

\* cpu.rs:24-27, one iteration of the loop (none once the function has returned)
EscapeIteration(st, c) ==
    IF st.returned THEN st
    ELSE IF NormSqr(st.z) >= 4
         THEN [st EXCEPT !.result = Some(st.i), !.returned = TRUE]
         ELSE [st EXCEPT !.z = Step(st.z, c), !.i = st.i + 1]

RECURSIVE Iterations(_, _, _)
\* cpu.rs:23, n iterations of the loop in a row
Iterations(st, c, n) ==
    IF n = 0 THEN st
    ELSE IF n = 1 THEN EscapeIteration(st, c)
    ELSE LET half == Iterations(st, c, n \div 2)
         IN  IF half.returned THEN half ELSE Iterations(half, c, n - (n \div 2))

\* mutant: `for i in 0..=limit`
escape_time_inclusive(c, limit) == Iterations(LoopStart, c, limit + 1).result

\* cpu.rs:20-31: `for i in 0..limit`, then None
escape_time(c, limit) == Iterations(LoopStart, c, limit).result

\* mutant: the imaginary axis grows with the row
pixel_to_view_upright(pixel, ul, extent, res) ==
    <<RoundF32(ul[1] + RoundF32(RoundF32(pixel[1] * extent[1]) \div res[1])),
      RoundF32(ul[2] + RoundF32(RoundF32(pixel[2] * extent[2]) \div res[2]))>>

\* cpu.rs:33-45: a product, a quotient and a sum or difference, each rounded
\* (the inputs drawn make the quotient a whole number of units)
pixel_to_view(pixel, ul, extent, res) ==
    <<RoundF32(ul[1] + RoundF32(RoundF32(pixel[1] * extent[1]) \div res[1])),
      RoundF32(ul[2] - RoundF32(RoundF32(pixel[2] * extent[2]) \div res[2]))>>

\* mutant: the channels are four bits apart
PackCountNarrow(e) ==
    IF ~e.some THEN 0
    ELSE BitOr(BitOr(Shl(e.count, 8), Shl(e.count, 4)), e.count)

\* cpu.rs:88-96: the value stored for an escape_time result
PackCount(e) ==
    IF ~e.some THEN 0
    ELSE BitOr(BitOr(Shl(e.count, 16), Shl(e.count, 8)), e.count)

(***************************************************************************)
(* cpu.rs: render, the partition into bands.                               *)
(***************************************************************************)
\* available_parallelism() is a NonZeroUsize; 0 stands for Err(_)
Detections == 0 .. MaxParallelism

\* cpu.rs:55-58
ThreadCount(detected) == IF detected = 0 THEN DEFAULT_THREADS ELSE detected

\* mutant: the floor of the band height is one row lower
BandHeightLowerFloor(height, threads) ==
    Max(height \div threads, MIN_BAND_HEIGHT - 1)

\* cpu.rs:59
BandHeight(height, threads) == Max(height \div threads, MIN_BAND_HEIGHT)

\* mutant: the chunk length is not a whole number of rows
ChunkSizeOffByOne(width, bh) == width * bh + 1

\* cpu.rs:63, the argument of chunks_mut
ChunkSize(width, bh) == width * bh

\* mutant: every slice also takes the first element of the next one
ChunksOverlapping(len, size) ==
    [k \in 1 .. ((len + size - 1) \div size) |->
        [lo |-> (k - 1) * size, len |-> Min(size + 1, len - (k - 1) * size)]]

\* cpu.rs:62-64, slice::chunks_mut: consecutive slices of `size` elements, the
\* last one holding what is left
ChunksMut(len, size) ==
    [k \in 1 .. ((len + size - 1) \div size) |->
        [lo |-> (k - 1) * size, len |-> Min(size, len - (k - 1) * size)]]

\* mutant: the assertion accepts a buffer that is longer than the resolution
LengthAtLeast(len, res) == len >= res[1] * res[2]

\* cpu.rs:53
LengthMatches(len, res) == len = res[1] * res[2]

\* mutant: every band takes itself for the first one
StartRowOfFirstBand(bh, band_i) == 0

\* cpu.rs:74
StartRow(bh, band_i) == bh * band_i

\* cpu.rs:75
ChunkHeight(band, res) == band.len \div res[1]

\* cpu.rs:76
EndRow(bh, band_i, band, res) == StartRow(bh, band_i) + ChunkHeight(band, res)

\* mutant: the index within the whole image
PixelIndexGlobal(row, start_row, res, column) == row * res[1] + column

\* cpu.rs:87, the index within the band
PixelIndex(row, start_row, res, column) == (row - start_row) * res[1] + column

\* cpu.rs:80-96, the value render_chunk stores for pixel (column, row)
PixelValue(column, row) ==
    PackCount(escape_time(
        pixel_to_view(<<column, row>>, upper_left, view_resolution, window_resolution),
        ESCAPE_LIMIT))

\* mutant: a thread is spawned for every band
SpawnsAlways(band_i, last_band) == TRUE

\* cpu.rs:106, which bands get a thread of their own
SpawnsThread(band_i, last_band) == band_i # last_band

\* cpu.rs:66-77, the start of one render_chunk invocation
NewChunk(who, band_i) ==
    [runner |-> who,
     start_row |-> StartRow(band_height, band_i),
     end_row |-> EndRow(band_height, band_i, bands[band_i + 1], window_resolution),
     row |-> StartRow(band_height, band_i),
     state |-> "running"]

Columns == 0 .. (window_resolution[1] - 1)

\* the columns of the row at the cursor whose store passes the slice's bounds check
InBounds(b) ==
    {col \in Columns :
        PixelIndex(chunk[b].row, chunk[b].start_row, window_resolution, col)
            < bands[b + 1].len}

\* the buffer index a store of band b at the cursor lands on
Target(b, col) ==
    bands[b + 1].lo
        + PixelIndex(chunk[b].row, chunk[b].start_row, window_resolution, col)

RECURSIVE StoreRow(_, _, _)
\* cpu.rs:79-97, the column loop from `col` on: the stores of band b's row at the
\* cursor into buffer f, up to the first store that fails the bounds check
StoreRow(f, b, col) ==
    IF col \notin InBounds(b) THEN f
    ELSE StoreRow([f EXCEPT ![Target(b, col)] = PixelValue(col, chunk[b].row)],
                  b, col + 1)

RECURSIVE NoteRow(_, _, _)
\* the same stores, noted in the record of who wrote which index
NoteRow(f, b, col) ==
    IF col \notin InBounds(b) THEN f
    ELSE NoteRow([f EXCEPT ![Target(b, col)] = @ \cup {b}], b, col + 1)

\* cpu.rs:78-97, one iteration of the row loop of render_chunk for band b
RenderRow(b) ==
    /\ chunk[b].state = "running"
    /\ chunk[b].row < chunk[b].end_row
    /\ pixels' = StoreRow(pixels, b, 0)
    /\ writers' = NoteRow(writers, b, 0)
    /\ chunk' = [chunk EXCEPT ![b].row = @ + 1,
                              ![b].state = IF InBounds(b) = Columns
                                           THEN "running" ELSE "panicked"]

\* cpu.rs:78, 99: the row loop is over and render_chunk returns; a failed bounds
\* check has unwound it
ChunkReturn(b) ==
    /\ chunk[b].state # "done"
    /\ IF chunk[b].state = "panicked" THEN TRUE ELSE chunk[b].row >= chunk[b].end_row
    /\ chunk' = [chunk EXCEPT ![b].state = IF @ = "panicked" THEN "unwound" ELSE "done"]

(***************************************************************************)
(* cpu.rs: render, the calling thread and the scoped workers.              *)
(***************************************************************************)
Bands == 0 .. (Len(bands) - 1)

NoChunks == [b \in {} |-> 0]

NoWriters == [i \in DOMAIN pixels |-> {}]

\* the caller (main.rs:356) hands its buffer to cpu::render
CpuCall ==
    /\ cpu_pc \in {"idle", "returned"}
    /\ cpu_calls < MaxCalls
    /\ cpu_calls' = cpu_calls + 1
    /\ cpu_pc' = "assert"
    /\ parallelism' = 0
    /\ band_height' = 0
    /\ bands' = <<>>
    /\ next_band' = 0
    /\ chunk' = NoChunks
    /\ writers' = NoWriters
    /\ UNCHANGED not_cpu_vars
    /\ UNCHANGED <<window_resolution, upper_left, view_resolution, pixels, first_frame>>

\* cpu.rs:53
CpuAssert ==
    /\ cpu_pc = "assert"
    /\ cpu_pc' = IF LengthMatches(Cardinality(DOMAIN pixels), window_resolution)
                 THEN "partition" ELSE "assert_failed"
    /\ UNCHANGED not_cpu_vars
    /\ UNCHANGED <<window_resolution, upper_left, view_resolution, pixels, parallelism,
                   band_height, bands, next_band, chunk, writers, cpu_calls, first_frame>>

\* cpu.rs:55-64
CpuPartition ==
    /\ cpu_pc = "partition"
    /\ \E detected \in Detections :
        /\ parallelism' = detected
        /\ band_height' = BandHeight(window_resolution[2], ThreadCount(detected))
    /\ bands' = ChunksMut(Cardinality(DOMAIN pixels),
                          ChunkSize(window_resolution[1], band_height'))
    /\ next_band' = 0
    /\ cpu_pc' = "scope"
    /\ UNCHANGED not_cpu_vars
    /\ UNCHANGED <<window_resolution, upper_left, view_resolution, pixels, chunk,
                   writers, cpu_calls, first_frame>>

\* cpu.rs:103-116: a band that is not the last gets a scoped thread
CpuSpawn ==
    /\ cpu_pc = "scope"
    /\ next_band < Len(bands)
    /\ SpawnsThread(next_band, Len(bands) - 1)
    /\ chunk' = chunk @@ (next_band :> NewChunk("worker", next_band))
    /\ next_band' = next_band + 1
    /\ UNCHANGED not_cpu_vars
    /\ UNCHANGED <<window_resolution, upper_left, view_resolution, pixels, cpu_pc,
                   parallelism, band_height, bands, writers, cpu_calls, first_frame>>

\* cpu.rs:117-126: the calling thread enters render_chunk itself
CpuOwnBand ==
    /\ cpu_pc = "scope"
    /\ next_band < Len(bands)
    /\ ~SpawnsThread(next_band, Len(bands) - 1)
    /\ chunk' = chunk @@ (next_band :> NewChunk("caller", next_band))
    /\ cpu_pc' = "own_band"
    /\ UNCHANGED not_cpu_vars
    /\ UNCHANGED <<window_resolution, upper_left, view_resolution, pixels, next_band,
                   parallelism, band_height, bands, writers, cpu_calls, first_frame>>

\* cpu.rs:78-97 on the calling thread
CallerRow ==
    /\ cpu_pc = "own_band"
    /\ RenderRow(next_band)
    /\ UNCHANGED not_cpu_vars
    /\ UNCHANGED <<window_resolution, upper_left, view_resolution, cpu_pc, parallelism,
                   band_height, bands, next_band, cpu_calls, first_frame>>

\* render_chunk returns on the calling thread and the enumerate() loop is over
CallerReturn ==
    /\ cpu_pc = "own_band"
    /\ ChunkReturn(next_band)
    /\ next_band' = next_band + 1
    /\ cpu_pc' = "scope"
    /\ UNCHANGED not_cpu_vars
    /\ UNCHANGED <<window_resolution, upper_left, view_resolution, pixels, parallelism,
                   band_height, bands, writers, cpu_calls, first_frame>>

\* cpu.rs:78-97 on a spawned thread
WorkerRow ==
    \E b \in DOMAIN chunk :
        /\ chunk[b].runner = "worker"
        /\ RenderRow(b)
        /\ UNCHANGED not_cpu_vars
        /\ UNCHANGED <<window_resolution, upper_left, view_resolution, cpu_pc,
                       parallelism, band_height, bands, next_band, cpu_calls,
                       first_frame>>

\* a spawned thread finishes
WorkerReturn ==
    \E b \in DOMAIN chunk :
        /\ chunk[b].runner = "worker"
        /\ ChunkReturn(b)
        /\ UNCHANGED not_cpu_vars
        /\ UNCHANGED <<window_resolution, upper_left, view_resolution, pixels, cpu_pc,
                       parallelism, band_height, bands, next_band, writers, cpu_calls,
                       first_frame>>

\* mutant: the threads are detached, nothing waits for them
NothingJoined == TRUE

\* cpu.rs:128: thread::scope returns once every scoped thread has finished
ScopeJoined == \A b \in DOMAIN chunk : chunk[b].state \in {"done", "unwound"}

\* cpu.rs:128-130: the end of the scope and of render
CpuJoin ==
    /\ cpu_pc = "scope"
    /\ next_band >= Len(bands)
    /\ ScopeJoined
    /\ cpu_pc' = IF \E b \in DOMAIN chunk : chunk[b].state = "unwound"
                 THEN "panicked" ELSE "returned"
    /\ first_frame' = IF cpu_pc' = "returned" /\ ~first_frame.done
                      THEN [done |-> TRUE, pixels |-> pixels, bands |-> Len(bands)]
                      ELSE first_frame
    /\ UNCHANGED not_cpu_vars
    /\ UNCHANGED <<window_resolution, upper_left, view_resolution, pixels, parallelism,
                   band_height, bands, next_band, chunk, writers, cpu_calls>>

\* what the buffer holds before the first render
StalePixel == 2 ^ 24 - 1

Widths == 1 .. MaxWidth

\* one row; one band of the floor height; one band and a row; two such bands; two
\* bands and MaxExtraRows rows
Heights ==
    {1, MIN_BAND_HEIGHT, MIN_BAND_HEIGHT + 1, 2 * MIN_BAND_HEIGHT,
     2 * MIN_BAND_HEIGHT + MaxExtraRows}

\* the windows rendered: every width up to two bands' start, the taller ones one
\* pixel wide
Resolutions ==
    {res \in Widths \X Heights : res[1] = 1 \/ res[2] <= MIN_BAND_HEIGHT + 1}

\* the upper-left corner: the integer points of the set lie around row
\* MIN_BAND_HEIGHT, where the second band starts
UpperLefts == {<<-1, MIN_BAND_HEIGHT + 1>>}

\* buffer lengths handed in: the resolution's, one less, one more
LengthErrors == {-1, 0, 1}

CpuInit ==
    /\ window_resolution \in Resolutions
    /\ upper_left \in UpperLefts
    /\ view_resolution = window_resolution
    /\ \E d \in LengthErrors :
         pixels = [i \in 0 .. (window_resolution[1] * window_resolution[2] + d - 1)
                     |-> StalePixel]
    /\ cpu_pc = "idle"
    /\ parallelism = 0
    /\ band_height = 0
    /\ bands = <<>>
    /\ next_band = 0
    /\ chunk = NoChunks
    /\ writers = NoWriters
    /\ cpu_calls = 0
    /\ first_frame = [done |-> FALSE, pixels |-> <<>>, bands |-> 0]


(***************************************************************************)
(* Claims about cpu::render.                                               *)
(***************************************************************************)
Width == window_resolution[1]

Height == window_resolution[2]

Rows == 0 .. (Height - 1)

GoodLength == Cardinality(DOMAIN pixels) = Width * Height

\* the bands whose row range, as render_chunk computed it, holds row r
BandsOfRow(r) ==
    {b \in DOMAIN chunk : chunk[b].start_row <= r /\ r < chunk[b].end_row}

\* C1: the bands of the partition are whole rows, each starting at the row its
\* render_chunk starts at; no row lies in the row ranges of two bands, no row range
\* leaves the image, and when render returns every row 0..height-1 lies in the row
\* range of exactly one band.
C1_BandsCoverRowsOnce ==
    /\ \A b \in Bands :
         /\ bands[b + 1].len % Width = 0
         /\ bands[b + 1].len > 0
         /\ bands[b + 1].lo = Width * StartRow(band_height, b)
    /\ \A b \in DOMAIN chunk : chunk[b].end_row <= Height
    /\ \A r \in Rows : Cardinality(BandsOfRow(r)) <= 1
    /\ cpu_pc = "returned" => \A r \in Rows : Cardinality(BandsOfRow(r)) = 1

\* a render of three bands has returned
C1_Witness ==
    /\ cpu_pc = "returned"
    /\ Len(bands) = 3
    /\ Width > 0 /\ Height > 0

\* C2: when render has returned, every band has been handed to a render_chunk
\* that has finished, on a spawned thread or on the caller, and every element of
\* the buffer has been written in this call.
C2_ReturnsAfterAllWorkers ==
    cpu_pc = "returned" =>
        /\ DOMAIN chunk = Bands
        /\ \A b \in DOMAIN chunk : chunk[b].state = "done"
        /\ \A i \in DOMAIN pixels : writers[i] # {}

\* render has returned after two spawned workers ran
C2_Witness ==
    /\ cpu_pc = "returned"
    /\ Cardinality({b \in DOMAIN chunk : chunk[b].runner = "worker"}) = 2
    /\ \A i \in DOMAIN pixels : writers[i] # {}

\* C3: in one call no buffer index is written by two band renderers, and the
\* slices of two bands share no index.
C3_NoSharedIndex ==
    /\ \A i \in DOMAIN writers : Cardinality(writers[i]) <= 1
    /\ \A b1, b2 \in Bands :
         b1 < b2 => bands[b1 + 1].lo + bands[b1 + 1].len <= bands[b2 + 1].lo

\* two workers and the caller have all written, and none is finished
C3_Witness ==
    /\ Cardinality(DOMAIN chunk) = 3
    /\ \A b \in DOMAIN chunk :
         /\ chunk[b].state = "running"
         /\ \E i \in DOMAIN writers : writers[i] = {b}

\* C4: a call that returns leaves the buffer equal to the frame of the first call
\* for the same upper-left point, view extents and resolution, whatever thread
\* count either call detected and however its band renderers were scheduled.
C4_SameFrameEveryRun ==
    (cpu_pc = "returned" /\ first_frame.done) => pixels = first_frame.pixels

\* the second call has returned with another number of bands than the first, on a
\* frame that is not of one colour
C4_Witness ==
    /\ cpu_pc = "returned"
    /\ cpu_calls = 2
    /\ first_frame.bands = 1
    /\ Len(bands) = 3
    /\ \E i, j \in DOMAIN pixels : pixels[i] # pixels[j]

\* C5: a buffer whose length is not width * height stops the call at the
\* assertion, with no band renderer started and no element written; a buffer of
\* the right length never fails the assertion.
C5_AssertionFirst ==
    /\ GoodLength => cpu_pc # "assert_failed"
    /\ ~GoodLength =>
         /\ cpu_pc \in {"idle", "assert", "assert_failed"}
         /\ chunk = NoChunks
         /\ \A i \in DOMAIN pixels : writers[i] = {} /\ pixels[i] = StalePixel

\* the assertion has failed
C5_Witness ==
    /\ cpu_pc = "assert_failed"
    /\ ~GoodLength

\* the bands handed to a spawned thread
Workers == {b \in DOMAIN chunk : chunk[b].runner = "worker"}

\* C17: a band is rendered on a spawned thread exactly when it is not the last
\* one; each render_chunk gets the slice and the index of its own band; a call
\* that has returned spawned one thread less than it has bands and rendered the
\* last band on the calling thread, so a single band spawns no thread.
C17_OneWorkerPerBandButLast ==
    /\ \A b \in DOMAIN chunk :
         /\ b \in Bands
         /\ chunk[b].runner = "worker" <=> b # Len(bands) - 1
         /\ chunk[b].start_row = band_height * b
         /\ (chunk[b].end_row - chunk[b].start_row) * Width = bands[b + 1].len
    /\ cpu_pc = "returned" =>
         /\ Cardinality(Workers) = Len(bands) - 1
         /\ chunk[Len(bands) - 1].runner = "caller"
         /\ Len(bands) = 1 => Workers = {}

\* a render of three bands has returned: bands 0 and 1 ran on spawned threads
C17_Witness ==
    /\ cpu_pc = "returned"
    /\ Len(bands) = 3
    /\ Workers = {0, 1}
    /\ chunk[2].runner = "caller"

\* the frame a single loop over all rows and columns computes, each pixel from
\* its coordinates in the image
SequentialRender ==
    [i \in 0 .. (Width * Height - 1) |->
        PackCount(escape_time(
            pixel_to_view(<<i % Width, i \div Width>>, upper_left, view_resolution,
                          window_resolution),
            ESCAPE_LIMIT))]

\* C18: when render has returned, the element at index row * width + column holds
\* the packed escape time of the point of pixel (column, row), for every row and
\* column, as a sequential render would leave it; no band renderer of a buffer of
\* the right length fails a bounds check.
C18_EqualsSequentialRender ==
    /\ GoodLength =>
         /\ cpu_pc # "panicked"
         /\ \A b \in DOMAIN chunk : chunk[b].state \in {"running", "done"}
    /\ cpu_pc = "returned" => pixels = SequentialRender

\* a render of three bands has returned; the first row of the second band holds
\* the count 3 of -1 + i, the row after it the 0 of the bounded point -1
C18_Witness ==
    /\ cpu_pc = "returned"
    /\ Len(bands) = 3
    /\ band_height = MIN_BAND_HEIGHT
    /\ pixels[band_height * Width] = 3 * 65536 + 3 * 256 + 3
    /\ pixels[(band_height + 1) * Width] = 0
    /\ pixels = SequentialRender

(***************************************************************************)
(* gpu.rs: Wgpu::render, the host thread.                                  *)
(***************************************************************************)
\* mutant: the channels are packed in the order blue, green, red
PackBgr(bytes, k) ==
    BitOr(BitOr(Shl(bytes[4 * k + 2], 16), Shl(bytes[4 * k + 1], 8)), bytes[4 * k])

\* gpu.rs:272-275, the pixel built from the four bytes of texel k
PackRgb(bytes, k) ==
    BitOr(BitOr(Shl(bytes[4 * k], 16), Shl(bytes[4 * k + 1], 8)), bytes[4 * k + 2])

\* mutant: the host trusts the poll and never waits
NeverWaits(flag) == FALSE

\* gpu.rs:242, the condition of the wait loop
StillNone(flag) == flag = "None"

\* mutant: result_lock.take() empties the Option
AfterTake(flag) == "None"

\* gpu.rs:246, result_lock.as_ref() leaves the Option as it is
AfterAsRef(flag) == flag

\* mutant: the mapping result is unwrapped, an error panics
AfterUnwrap(result) == IF result = "Ok" THEN "get_mapped_range" ELSE "panicked"

\* gpu.rs:247-278: where the host goes on the mapping result it read
AfterMatch(result) ==
    IF result = "None" THEN "panicked"
    ELSE IF result = "Ok" THEN "get_mapped_range"
    ELSE "log_error"

\* what render hands back to its caller: the function returns ()
Returns(result) == "unit"

\* the call the host is in
Call == gpu_calls

Access(who, what) == [by |-> who, kind |-> what, holder |-> lock_holder[Call]]

\* gpu.rs:86-91: the staging buffer has size_of_val(buffer) bytes
StagingSize == 4 * Cardinality(DOMAIN buffer)

\* gpu.rs:197-222: the bytes copy_texture_to_buffer writes, all the texels of the texture
CopySize == 4 * storage_texture[1] * storage_texture[2]

\* the caller's redraw calls render; gpu.rs:55-225: the pipeline is built, the
\* staging buffer created, the work submitted. Nothing in render compares
\* buffer.len() with the resolution; a copy that overruns the staging buffer is
\* refused by wgpu's validation, and render does not go on.
GpuCall ==
    /\ gpu_pc \in {"idle", "returned"}
    /\ gpu_calls < MaxCalls
    /\ gpu_calls' = gpu_calls + 1
    /\ output_staging_buffer' =
           output_staging_buffer @@ (gpu_calls' :> [state |-> "unmapped", bytes |-> <<>>])
    /\ gpu_pc' = IF CopySize <= StagingSize THEN "map_async" ELSE "validation_error"
    /\ UNCHANGED not_gpu_vars
    /\ UNCHANGED storage_texture
    /\ UNCHANGED <<buffer, result_signal, lock_holder, callback, woken, mapping_result,
                   view, buffer_index, stderr, returned_value, accesses>>

\* gpu.rs:227-236: a new result_signal, and the callback handed to map_async
GpuMapAsync ==
    /\ gpu_pc = "map_async"
    /\ result_signal' = result_signal @@ (Call :> "None")
    /\ lock_holder' = lock_holder @@ (Call :> "free")
    /\ accesses' = accesses @@ (Call :> {})
    /\ callback' = callback @@ (Call :> [pc |-> "pending", result |-> "None"])
    /\ output_staging_buffer' =
           [output_staging_buffer EXCEPT ![Call].state = "map_pending"]
    /\ gpu_pc' = "poll"
    /\ UNCHANGED not_gpu_vars
    /\ UNCHANGED storage_texture
    /\ UNCHANGED <<gpu_calls, buffer, woken, mapping_result, view, buffer_index,
                   stderr, returned_value>>

\* gpu.rs:237: device.poll(Wait) returns
GpuPoll ==
    /\ gpu_pc = "poll"
    /\ gpu_pc' = "lock"
    /\ UNCHANGED not_gpu_vars
    /\ UNCHANGED storage_texture
    /\ UNCHANGED <<gpu_calls, buffer, result_signal, lock_holder, callback,
                   output_staging_buffer, woken, mapping_result, view, buffer_index,
                   stderr, returned_value, accesses>>

\* gpu.rs:241: lock.lock()
HostLock ==
    /\ gpu_pc = "lock"
    /\ lock_holder[Call] = "free"
    /\ lock_holder' = [lock_holder EXCEPT ![Call] = "host"]
    /\ gpu_pc' = "check"
    /\ UNCHANGED not_gpu_vars
    /\ UNCHANGED storage_texture
    /\ UNCHANGED <<gpu_calls, buffer, result_signal, callback, output_staging_buffer,
                   woken, mapping_result, view, buffer_index, stderr, returned_value,
                   accesses>>

\* gpu.rs:242-243: the loop condition; condvar.wait releases the mutex and blocks
HostCheck ==
    /\ gpu_pc = "check"
    /\ accesses' = [accesses EXCEPT ![Call] = @ \cup {Access("host", "read")}]
    /\ IF StillNone(result_signal[Call])
       THEN /\ gpu_pc' = "wait"
            /\ lock_holder' = [lock_holder EXCEPT ![Call] = "free"]
       ELSE /\ gpu_pc' = "match"
            /\ UNCHANGED lock_holder
    /\ woken' = FALSE
    /\ UNCHANGED not_gpu_vars
    /\ UNCHANGED storage_texture
    /\ UNCHANGED <<gpu_calls, buffer, result_signal, callback, output_staging_buffer,
                   mapping_result, view, buffer_index, stderr, returned_value>>

\* std::sync::Condvar::wait may wake without a notification
SpuriousWake ==
    /\ gpu_pc = "wait"
    /\ ~woken
    /\ woken' = TRUE
    /\ UNCHANGED not_gpu_vars
    /\ UNCHANGED storage_texture
    /\ UNCHANGED <<gpu_pc, gpu_calls, buffer, result_signal, lock_holder, callback,
                   output_staging_buffer, mapping_result, view, buffer_index, stderr,
                   returned_value, accesses>>

\* gpu.rs:243: a woken wait takes the mutex again and returns the guard
HostWake ==
    /\ gpu_pc = "wait"
    /\ woken
    /\ lock_holder[Call] = "free"
    /\ lock_holder' = [lock_holder EXCEPT ![Call] = "host"]
    /\ gpu_pc' = "check"
    /\ UNCHANGED not_gpu_vars
    /\ UNCHANGED storage_texture
    /\ UNCHANGED <<gpu_calls, buffer, result_signal, callback, output_staging_buffer,
                   woken, mapping_result, view, buffer_index, stderr, returned_value,
                   accesses>>

\* gpu.rs:246-252, 278: the result is read and matched
HostMatch ==
    /\ gpu_pc = "match"
    /\ accesses' = [accesses EXCEPT ![Call] = @ \cup {Access("host", "read")}]
    /\ mapping_result' = result_signal[Call]
    /\ result_signal' = [result_signal EXCEPT ![Call] = AfterAsRef(@)]
    /\ gpu_pc' = AfterMatch(result_signal[Call])
    /\ UNCHANGED not_gpu_vars
    /\ UNCHANGED storage_texture
    /\ UNCHANGED <<gpu_calls, buffer, lock_holder, callback, output_staging_buffer,
                   woken, view, buffer_index, stderr, returned_value>>

\* gpu.rs:253: get_mapped_range panics on a buffer that is not mapped
HostGetMappedRange ==
    /\ gpu_pc = "get_mapped_range"
    /\ gpu_pc' = IF output_staging_buffer[Call].state = "mapped"
                 THEN "repack" ELSE "panicked"
    /\ view' = output_staging_buffer[Call].bytes
    /\ buffer_index' = 0
    /\ UNCHANGED not_gpu_vars
    /\ UNCHANGED storage_texture
    /\ UNCHANGED <<gpu_calls, buffer, result_signal, lock_holder, callback,
                   output_staging_buffer, woken, mapping_result, stderr,
                   returned_value, accesses>>

\* gpu.rs:271-276, one iteration of the repack loop
HostRepack ==
    /\ gpu_pc = "repack"
    /\ buffer_index \in DOMAIN buffer
    /\ buffer' = [buffer EXCEPT ![buffer_index] = PackRgb(view, buffer_index)]
    /\ buffer_index' = buffer_index + 1
    /\ UNCHANGED not_gpu_vars
    /\ UNCHANGED storage_texture
    /\ UNCHANGED <<gpu_pc, gpu_calls, result_signal, lock_holder, callback,
                   output_staging_buffer, woken, mapping_result, view, stderr,
                   returned_value, accesses>>

\* gpu.rs:276-277: the loop is over and the mapped range is dropped
HostRepackDone ==
    /\ gpu_pc = "repack"
    /\ buffer_index \notin DOMAIN buffer
    /\ view' = <<>>
    /\ gpu_pc' = "unmap"
    /\ UNCHANGED not_gpu_vars
    /\ UNCHANGED storage_texture
    /\ UNCHANGED <<gpu_calls, buffer, result_signal, lock_holder, callback,
                   output_staging_buffer, woken, mapping_result, buffer_index, stderr,
                   returned_value, accesses>>

\* mutant: on an error the frame is cleared to black
HostLogErrorClearsFrame ==
    /\ gpu_pc = "log_error"
    /\ stderr' = stderr \cup {Call}
    /\ buffer' = [i \in DOMAIN buffer |-> 0]
    /\ gpu_pc' = "unmap"
    /\ UNCHANGED not_gpu_vars
    /\ UNCHANGED storage_texture
    /\ UNCHANGED <<gpu_calls, result_signal, lock_holder, callback,
                   output_staging_buffer, woken, mapping_result, view, buffer_index,
                   returned_value, accesses>>

\* gpu.rs:278: eprintln!("failed to map texture: ...")
HostLogError ==
    /\ gpu_pc = "log_error"
    /\ stderr' = stderr \cup {Call}
    /\ gpu_pc' = "unmap"
    /\ UNCHANGED not_gpu_vars
    /\ UNCHANGED storage_texture
    /\ UNCHANGED <<gpu_calls, buffer, result_signal, lock_holder, callback,
                   output_staging_buffer, woken, mapping_result, view, buffer_index,
                   returned_value, accesses>>

\* gpu.rs:280
HostUnmap ==
    /\ gpu_pc = "unmap"
    /\ output_staging_buffer' =
           [output_staging_buffer EXCEPT ![Call] = [state |-> "unmapped", bytes |-> <<>>]]
    /\ gpu_pc' = "return"
    /\ UNCHANGED not_gpu_vars
    /\ UNCHANGED storage_texture
    /\ UNCHANGED <<gpu_calls, buffer, result_signal, lock_holder, callback, woken,
                   mapping_result, view, buffer_index, stderr, returned_value, accesses>>

\* gpu.rs:281: the guard is dropped and render returns
HostReturn ==
    /\ gpu_pc = "return"
    /\ lock_holder' = [lock_holder EXCEPT ![Call] = "free"]
    /\ returned_value' = returned_value @@ (Call :> Returns(mapping_result))
    /\ gpu_pc' = "returned"
    /\ UNCHANGED not_gpu_vars
    /\ UNCHANGED storage_texture
    /\ UNCHANGED <<gpu_calls, buffer, result_signal, callback, output_staging_buffer,
                   woken, mapping_result, view, buffer_index, stderr, accesses>>

(***************************************************************************)
(* gpu.rs: the device and the map_async callback of each call.             *)
(***************************************************************************)
\* RGBA texels the compute shader may have stored
Texels == {<<1, 2, 3, 4>>, <<255, 128, 0, 255>>}

\* what the staging buffer may hold after the copy: the texels of the texture, and
\* the zeroes it was created with in the bytes the copy does not reach
DeviceFrames ==
    {[i \in 0 .. (StagingSize - 1) |-> IF i < CopySize THEN t[(i % 4) + 1] ELSE 0] :
        t \in Texels}

\* the device maps the staging buffer and calls back with Ok(())
MappingSucceeds ==
    \E c \in DOMAIN callback :
        /\ callback[c].pc = "pending"
        /\ \E frame \in DeviceFrames :
             output_staging_buffer' =
                 [output_staging_buffer EXCEPT ![c] = [state |-> "mapped", bytes |-> frame]]
        /\ callback' = [callback EXCEPT ![c] = [pc |-> "invoked", result |-> "Ok"]]
        /\ UNCHANGED not_gpu_vars
        /\ UNCHANGED storage_texture
        /\ UNCHANGED <<gpu_pc, gpu_calls, buffer, result_signal, lock_holder, woken,
                       mapping_result, view, buffer_index, stderr, returned_value,
                       accesses>>

\* the device fails to map the staging buffer and calls back with Err(..)
MappingFails ==
    \E c \in DOMAIN callback :
        /\ callback[c].pc = "pending"
        /\ output_staging_buffer' =
               [output_staging_buffer EXCEPT ![c] = [state |-> "unmapped", bytes |-> <<>>]]
        /\ callback' = [callback EXCEPT ![c] = [pc |-> "invoked", result |-> "Err"]]
        /\ UNCHANGED not_gpu_vars
        /\ UNCHANGED storage_texture
        /\ UNCHANGED <<gpu_pc, gpu_calls, buffer, result_signal, lock_holder, woken,
                       mapping_result, view, buffer_index, stderr, returned_value,
                       accesses>>

\* gpu.rs:232: lock.lock() in the callback
CallbackLock ==
    \E c \in DOMAIN callback :
        /\ callback[c].pc = "invoked"
        /\ lock_holder[c] = "free"
        /\ lock_holder' = [lock_holder EXCEPT ![c] = "callback"]
        /\ callback' = [callback EXCEPT ![c].pc = "locked"]
        /\ UNCHANGED not_gpu_vars
        /\ UNCHANGED storage_texture
        /\ UNCHANGED <<gpu_pc, gpu_calls, buffer, result_signal, output_staging_buffer,
                       woken, mapping_result, view, buffer_index, stderr,
                       returned_value, accesses>>

\* gpu.rs:233: *result_lock = Some(result)
CallbackStore ==
    \E c \in DOMAIN callback :
        /\ callback[c].pc = "locked"
        /\ result_signal' = [result_signal EXCEPT ![c] = callback[c].result]
        /\ accesses' = [accesses EXCEPT ![c] =
               @ \cup {[by |-> "callback", kind |-> "write", holder |-> lock_holder[c]]}]
        /\ callback' = [callback EXCEPT ![c].pc = "stored"]
        /\ UNCHANGED not_gpu_vars
        /\ UNCHANGED storage_texture
        /\ UNCHANGED <<gpu_pc, gpu_calls, buffer, lock_holder, output_staging_buffer,
                       woken, mapping_result, view, buffer_index, stderr,
                       returned_value>>

\* mutant: the notification is dropped
NotifyNone(c) == woken

\* Condvar::notify_one wakes the host if it is waiting on the condvar of call c,
\* and is forgotten otherwise
NotifyOne(c) == IF gpu_pc = "wait" /\ Call = c THEN TRUE ELSE woken

\* gpu.rs:234: condvar.notify_one()
CallbackNotify ==
    \E c \in DOMAIN callback :
        /\ callback[c].pc = "stored"
        /\ woken' = NotifyOne(c)
        /\ callback' = [callback EXCEPT ![c].pc = "notified"]
        /\ UNCHANGED not_gpu_vars
        /\ UNCHANGED storage_texture
        /\ UNCHANGED <<gpu_pc, gpu_calls, buffer, result_signal, lock_holder,
                       output_staging_buffer, mapping_result, view, buffer_index,
                       stderr, returned_value, accesses>>

\* gpu.rs:235: the closure ends and its guard is dropped
CallbackDone ==
    \E c \in DOMAIN callback :
        /\ callback[c].pc = "notified"
        /\ lock_holder' = [lock_holder EXCEPT ![c] = "free"]
        /\ callback' = [callback EXCEPT ![c].pc = "done"]
        /\ UNCHANGED not_gpu_vars
        /\ UNCHANGED storage_texture
        /\ UNCHANGED <<gpu_pc, gpu_calls, buffer, result_signal, output_staging_buffer,
                       woken, mapping_result, view, buffer_index, stderr,
                       returned_value, accesses>>

NoCalls == [c \in {} |-> 0]

\* a window of 1..MaxWidth pixels in one row, and a buffer that holds the previous
\* frame and is as long as the window has pixels, or one longer, or one shorter
GpuInit ==
    /\ storage_texture \in Widths \X {1}
    /\ gpu_pc = "idle"
    /\ gpu_calls = 0
    /\ \E d \in LengthErrors :
         LET n == storage_texture[1] * storage_texture[2] + d
         IN  /\ n >= 1
             /\ buffer = [i \in 0 .. (n - 1) |-> StalePixel]
    /\ result_signal = NoCalls
    /\ lock_holder = NoCalls
    /\ callback = NoCalls
    /\ output_staging_buffer = NoCalls
    /\ woken = FALSE
    /\ mapping_result = "None"
    /\ view = <<>>
    /\ buffer_index = 0
    /\ stderr = {}
    /\ returned_value = NoCalls
    /\ accesses = NoCalls

(***************************************************************************)
(* Claims about Wgpu::render.                                              *)
(***************************************************************************)
\* C6: once the host is past the wait loop it holds the mutex and the flag of its
\* call is set; while it reads the mapped range and writes the pixel buffer the
\* flag is Ok, as the callback stored it, and the staging buffer is mapped.
C6_ReadsAfterFlagSeen ==
    /\ gpu_pc \in {"match", "get_mapped_range", "repack"} =>
         /\ result_signal[Call] # "None"
         /\ lock_holder[Call] = "host"
    /\ gpu_pc \in {"get_mapped_range", "repack"} =>
         /\ result_signal[Call] = "Ok"
         /\ mapping_result = "Ok"
         /\ callback[Call].result = "Ok"
         /\ output_staging_buffer[Call].state = "mapped"

\* the host, holding the mutex of a call whose flag is Ok, has written a pixel
C6_Witness ==
    /\ gpu_pc = "repack"
    /\ buffer_index > 0
    /\ result_signal[Call] = "Ok"
    /\ lock_holder[Call] = "host"
    /\ buffer[0] # StalePixel

\* a step changes the flag of a call only from None to Some, with the callback
\* holding the mutex
FlagStep ==
    \A c \in DOMAIN result_signal :
        result_signal'[c] # result_signal[c] =>
            /\ result_signal[c] = "None"
            /\ result_signal'[c] # "None"
            /\ lock_holder[c] = "callback"

\* a new result_signal holds None
FlagCreated ==
    \A c \in (DOMAIN result_signal') \ (DOMAIN result_signal) : result_signal'[c] = "None"

\* every access to the flag was made holding the mutex: writes by the callback,
\* reads by the host
AccessesLocked ==
    \A c \in DOMAIN accesses :
        \A a \in accesses[c] :
            /\ a.holder = a.by
            /\ a.kind = "write" => a.by = "callback"
            /\ a.kind = "read" => a.by = "host"

\* the flag of a call that has returned was written
WrittenOnReturn ==
    \A c \in DOMAIN returned_value :
        /\ result_signal[c] # "None"
        /\ \E a \in accesses[c] : a.kind = "write"

\* C7: the flag of a call starts as None, changes only from None to Some(result),
\* in a step of the callback that holds the mutex, never changes again, has been
\* written when the call returns, and is read only by the host holding the mutex.
C7_SingleHandoff ==
    [][FlagStep /\ FlagCreated]_vars /\ [](AccessesLocked /\ WrittenOnReturn)

\* the flag of a returned call was written by the callback and read by the host
C7_Witness ==
    /\ gpu_pc = "returned"
    /\ result_signal[Call] = "Err"
    /\ \E a \in accesses[Call] : a.kind = "write"
    /\ \E a \in accesses[Call] : a.kind = "read"

\* C8: the host never panics; a call that returned on an error result has logged
\* it; the flag of a call holds nothing but what its own callback was given, and
\* a call whose callback is still pending has its flag None and its staging buffer
\* waiting for the mapping.
C8_MappingFailureRecoverable ==
    /\ gpu_pc # "panicked"
    /\ \A c \in DOMAIN returned_value : result_signal[c] = "Err" => c \in stderr
    /\ \A c \in DOMAIN result_signal :
         /\ result_signal[c] # "None" => result_signal[c] = callback[c].result
         /\ callback[c].pc = "pending" =>
              /\ result_signal[c] = "None"
              /\ output_staging_buffer[c].state = "map_pending"

\* the first call failed and was logged, the second filled the buffer
C8_Witness ==
    /\ gpu_pc = "returned"
    /\ gpu_calls = 2
    /\ result_signal[1] = "Err"
    /\ 1 \in stderr
    /\ result_signal[2] = "Ok"
    /\ \A i \in DOMAIN buffer : buffer[i] # StalePixel

\* C9: what render returns differs between a call that filled the buffer and a
\* call whose readback failed.
C9_FaultSurfaced ==
    \A c1, c2 \in DOMAIN returned_value :
        (result_signal[c1] = "Ok" /\ result_signal[c2] = "Err") =>
            returned_value[c1] # returned_value[c2]

\* the steps of the host thread inside render, without the spurious wake-up
HostSteps ==
    \/ GpuMapAsync
    \/ GpuPoll
    \/ HostLock
    \/ HostCheck
    \/ HostWake
    \/ HostMatch
    \/ HostGetMappedRange
    \/ HostRepack
    \/ HostRepackDone
    \/ HostLogError
    \/ HostUnmap
    \/ HostReturn

\* the steps of a callback that has been called
CallbackSteps ==
    \/ CallbackLock
    \/ CallbackStore
    \/ CallbackNotify
    \/ CallbackDone

\* a thread that can run does run, and a callback that finds the mutex free
\* again and again, between the host's waits, does get it; nothing makes the
\* device call back, the condvar wake without a notification, or the caller
\* redraw
Fairness == WF_vars(HostSteps) /\ SF_vars(CallbackSteps)

\* the callback of call c has been called
CallbackRuns(c) == c \in DOMAIN callback /\ callback[c].pc = "invoked"

\* the host is past the wait loop of call c
PastWaitLoop(c) == gpu_calls = c /\ gpu_pc = "match"

\* the host sleeps in condvar.wait although the callback has already notified
LostWakeup ==
    /\ gpu_pc = "wait"
    /\ ~woken
    /\ callback[Call].pc \in {"notified", "done"}

\* the host is in the wait loop and nothing but the device's callback can let it out
BlockedForever ==
    /\ gpu_pc \in {"check", "wait"}
    /\ result_signal[Call] = "None"
    /\ ~ENABLED (HostSteps \/ CallbackSteps)

\* C21: whenever the callback of a call runs, the host leaves the wait loop of
\* that call; no notification is lost; and the host is stuck in the wait loop
\* only while the callback has not been called.
C21_NoLostWakeup ==
    /\ \A c \in 1 .. MaxCalls : CallbackRuns(c) ~> PastWaitLoop(c)
    /\ [](~LostWakeup)
    /\ [](BlockedForever => callback[Call].pc = "pending")

\* the callback notifies while the host sleeps in condvar.wait
C21_Witness ==
    /\ gpu_pc = "wait"
    /\ woken
    /\ callback[Call].pc = "notified"
    /\ result_signal[Call] # "None"
    /\ lock_holder[Call] = "callback"

\* the mapping result delivered to call c is an error
DeliveredErr(c) == c \in DOMAIN callback /\ callback[c].result = "Err"

\* a step of a call that was delivered an error leaves the call with that error
\* and leaves every element of the pixel buffer as it is
ErrStep ==
    (gpu_calls' = gpu_calls /\ DeliveredErr(Call)) =>
        /\ DeliveredErr(Call)'
        /\ buffer' = buffer

\* C22: a call of render whose mapping result is an error writes no element of
\* the pixel buffer; the buffer after the call is the buffer before the call.
C22_ErrKeepsBuffer ==
    /\ [][ErrStep]_vars
    /\ [](DeliveredErr(1) /\ gpu_calls = 1 =>
             \A i \in DOMAIN buffer : buffer[i] = StalePixel)

\* the first call filled the buffer, the second failed and returned with the
\* first call's frame still in the buffer
C22_Witness ==
    /\ gpu_pc = "returned"
    /\ gpu_calls = 2
    /\ result_signal[1] = "Ok"
    /\ result_signal[2] = "Err"
    /\ 2 \in stderr
    /\ \A i \in DOMAIN buffer : buffer[i] # StalePixel

\* C15: Wgpu::render never completes a render that wrote pixels into a buffer
\* whose length differs from width * height of the resolution.
C15_MismatchRejected ==
    (gpu_pc = "returned" /\ \E i \in DOMAIN buffer : buffer[i] # StalePixel) =>
        Cardinality(DOMAIN buffer) = storage_texture[1] * storage_texture[2]

(***************************************************************************)
(* The repack loops on their own: gpu.rs:271-276 and main.rs:327-338.      *)
(***************************************************************************)
\* main.rs:329-331
TextureIndex(row, column, res) == (row * (res[1] * 4)) + column * 4

\* main.rs:332-334
Shifted(bytes, texture_index) ==
    BitOr(BitOr(Shl(bytes[texture_index], 16), Shl(bytes[texture_index + 1], 8)),
          bytes[texture_index + 2])

\* main.rs:335
InlinePixelIndex(row, column, res) == row * res[1] + column

TexturePixels == texture_resolution[1] * texture_resolution[2]

\* gpu.rs:271-276, one iteration
RepackStep ==
    /\ pack_pc = "gpu_loop"
    /\ pack_index < TexturePixels
    /\ repacked' = [repacked EXCEPT ![pack_index] = PackRgb(texture_data, pack_index)]
    /\ pack_index' = pack_index + 1
    /\ UNCHANGED not_pack_vars
    /\ UNCHANGED <<texture_resolution, texture_data, shifted, pack_pc>>

\* gpu.rs:276: the loop is over; the same bytes go through the loop of main.rs
RepackEnd ==
    /\ pack_pc = "gpu_loop"
    /\ pack_index >= TexturePixels
    /\ pack_pc' = "inline_loop"
    /\ pack_index' = 0
    /\ UNCHANGED not_pack_vars
    /\ UNCHANGED <<texture_resolution, texture_data, repacked, shifted>>

\* main.rs:327-337, one iteration of the column loop, rows outermost
InlineRepackStep ==
    /\ pack_pc = "inline_loop"
    /\ pack_index < TexturePixels
    /\ LET row == pack_index \div texture_resolution[1]
           column == pack_index % texture_resolution[1]
       IN  shifted' =
               [shifted EXCEPT ![InlinePixelIndex(row, column, texture_resolution)] =
                   Shifted(texture_data, TextureIndex(row, column, texture_resolution))]
    /\ pack_index' = pack_index + 1
    /\ UNCHANGED not_pack_vars
    /\ UNCHANGED <<texture_resolution, texture_data, repacked, pack_pc>>

\* main.rs:338
InlineRepackEnd ==
    /\ pack_pc = "inline_loop"
    /\ pack_index >= TexturePixels
    /\ pack_pc' = "done"
    /\ UNCHANGED not_pack_vars
    /\ UNCHANGED <<texture_resolution, texture_data, repacked, shifted, pack_index>>

\* byte values: all bits clear, the lowest bit, the highest bit, all bits set
ByteSamples == {0, 1, 128, 255}

\* a texture of zero bytes but for one texel, whose four bytes are samples
PackInit ==
    /\ texture_resolution \in Widths \X Widths
    /\ \E hot \in 0 .. (texture_resolution[1] * texture_resolution[2] - 1),
          texel \in ByteSamples \X ByteSamples \X ByteSamples \X ByteSamples :
         texture_data =
             [i \in 0 .. (4 * texture_resolution[1] * texture_resolution[2] - 1) |->
                 IF i \div 4 = hot THEN texel[(i % 4) + 1] ELSE 0]
    /\ repacked = [k \in 0 .. (texture_resolution[1] * texture_resolution[2] - 1)
                     |-> StalePixel]
    /\ shifted = repacked
    /\ pack_pc = "gpu_loop"
    /\ pack_index = 0

(***************************************************************************)
(* Claims about the repack.                                                *)
(***************************************************************************)
\* the pixels a loop has written so far
Written(loop) ==
    IF pack_pc = loop THEN 0 .. (pack_index - 1)
    ELSE IF loop = "gpu_loop" \/ pack_pc = "done" THEN 0 .. (TexturePixels - 1)
    ELSE {}

\* b0 * 65536 + b1 * 256 + b2 of texel k
Rgb(k) ==
    texture_data[4 * k] * 65536 + texture_data[4 * k + 1] * 256 + texture_data[4 * k + 2]

\* C10: every pixel k written by the loop of gpu.rs and by the loop of main.rs is
\* b0 * 65536 + b1 * 256 + b2 of the bytes at 4k..4k+2, whatever the byte at 4k+3;
\* it is below 2^24, so its top 8 bits are zero.
C10_PackedRgb ==
    /\ \A k \in Written("gpu_loop") : repacked[k] = Rgb(k) /\ repacked[k] < 2 ^ 24
    /\ \A k \in Written("inline_loop") : shifted[k] = Rgb(k) /\ shifted[k] < 2 ^ 24

\* both loops are over on a texture whose last texel has distinct colour bytes and
\* an alpha byte with all bits set
C10_Witness ==
    /\ pack_pc = "done"
    /\ TexturePixels > 1
    /\ LET k == TexturePixels - 1
       IN  /\ texture_data[4 * k] = 1
           /\ texture_data[4 * k + 1] = 128
           /\ texture_data[4 * k + 2] = 255
           /\ texture_data[4 * k + 3] = 255
           /\ repacked[k] = 65536 + 128 * 256 + 255
           /\ shifted[k] = repacked[k]

(***************************************************************************)
(* cpu.rs: the pure functions called on their own.                         *)
(***************************************************************************)
\* the points escape_time is called on
Points == (-MaxCoordinate .. MaxCoordinate) \X (-MaxCoordinate .. MaxCoordinate)

\* the limits escape_time is called with; render_chunk passes 256 (cpu.rs:88)
Limits == (0 .. MaxSmallLimit) \cup {ESCAPE_LIMIT}

\* cpu.rs:22-30: what the loop `for i in 0..limit` can return on any point at
\* all, whatever the outcomes of its bailout tests
EscapeResults(limit) == {None} \cup {Some(i) : i \in 0 .. (limit - 1)}

EscapeCalls == {[fn |-> "escape_time", c |-> c, limit |-> limit] : c \in Points, limit \in Limits}

\* the match of cpu.rs:88-96 on each value escape_time(point, 256) can return
PackCalls == {[fn |-> "pack", e |-> e] : e \in EscapeResults(ESCAPE_LIMIT)}

\* cpu.rs:20-31
CallEscapeTime ==
    /\ fn_pc = "call"
    /\ fn_args.fn = "escape_time"
    /\ fn_ret' = escape_time(fn_args.c, fn_args.limit)
    /\ fn_pc' = "returned"
    /\ UNCHANGED fn_args
    /\ UNCHANGED not_fn_vars

\* cpu.rs:88-96: the value render_chunk stores for the result of escape_time(point, 256)
StorePixel ==
    /\ fn_pc = "returned"
    /\ fn_args.fn = "escape_time"
    /\ fn_args.limit = ESCAPE_LIMIT
    /\ fn_ret' = PackCount(fn_ret)
    /\ fn_pc' = "stored"
    /\ UNCHANGED fn_args
    /\ UNCHANGED not_fn_vars

\* cpu.rs:88-96 on a result not tied to a point
CallPack ==
    /\ fn_pc = "call"
    /\ fn_args.fn = "pack"
    /\ fn_ret' = PackCount(fn_args.e)
    /\ fn_pc' = "stored"
    /\ UNCHANGED fn_args
    /\ UNCHANGED not_fn_vars

\* 1.0 in units of 2^-FractionBits
One == 2 ^ FractionBits

\* upper left corners: the origin and -2 + i
Corners == {<<0, 0>>, <<-2 * One, One>>}

\* what one pixel is worth along an axis: 0.5, as in a view of the whole set, and
\* 2^-FractionBits, as in a view of a few 1e-5 across a window of a thousand rows
PixelSteps == {One \div 2, 1}

\* main.rs:356-361: the arguments cpu::render passes on to pixel_to_view for
\* each pixel of the window
ViewCalls ==
    {[fn |-> "pixel_to_view", pixel |-> call[1], upper_left |-> call[2],
      view_resolution |-> <<call[3] * call[4][1], call[3] * call[4][2]>>,
      window_resolution |-> call[4]] :
        call \in {x \in ((0 .. (MaxWidth - 1)) \X (0 .. (MaxWidth - 1))) \X Corners
                          \X PixelSteps \X (Widths \X Widths) :
                     x[1][1] < x[4][1] /\ x[1][2] < x[4][2]}}

\* cpu.rs:33-45
CallPixelToView ==
    /\ fn_pc = "call"
    /\ fn_args.fn = "pixel_to_view"
    /\ fn_ret' = pixel_to_view(fn_args.pixel, fn_args.upper_left, fn_args.view_resolution,
                               fn_args.window_resolution)
    /\ fn_pc' = "returned"
    /\ UNCHANGED fn_args
    /\ UNCHANGED not_fn_vars

\* the heights a partition into bands is computed for, with `threads` threads:
\* around the heights where height / threads crosses the floor of the band
\* height, with every remainder; shorter than one row per thread; and the
\* window's own
PartitionHeights(threads) ==
    {height \in {q * threads + r :
                    q \in {0, MIN_BAND_HEIGHT - 1, MIN_BAND_HEIGHT, MIN_BAND_HEIGHT + 1},
                    r \in 0 .. (threads - 1)} : height >= 1}
        \cup {WINDOW_INNER_SIZE[2]}

\* cpu.rs:53-64, 101-106 on a buffer of the resolution's length
PartitionCalls ==
    UNION {{[fn |-> "partition", detected |-> detected,
             window_resolution |-> <<width, height>>] :
               width \in Widths, height \in PartitionHeights(ThreadCount(detected))} :
           detected \in 1 .. MaxThreads}

\* cpu.rs:55-64 and 101-106: the thread count, the band height, the bands
\* chunks_mut yields and the bands that get a thread of their own
CallPartition ==
    /\ fn_pc = "call"
    /\ fn_args.fn = "partition"
    /\ LET thread_count == ThreadCount(fn_args.detected)
           res == fn_args.window_resolution
           bh == BandHeight(res[2], thread_count)
           chunks == ChunksMut(res[1] * res[2], ChunkSize(res[1], bh))
           last_band == Len(chunks) - 1
       IN  fn_ret' = [thread_count |-> thread_count,
                      band_height |-> bh,
                      bands |-> Len(chunks),
                      spawned |-> Cardinality({band_i \in 0 .. last_band :
                                                  SpawnsThread(band_i, last_band)})]
    /\ fn_pc' = "returned"
    /\ UNCHANGED fn_args
    /\ UNCHANGED not_fn_vars

FnInit ==
    /\ fn_pc = "call"
    /\ fn_args \in EscapeCalls \cup PackCalls \cup ViewCalls
    /\ fn_ret = None

\* render is about to partition a buffer
PartitionInit ==
    /\ fn_pc = "call"
    /\ fn_args \in PartitionCalls
    /\ fn_ret = None

(***************************************************************************)
(* main.rs: the GPU branch of the RedrawRequested handler.                 *)
(***************************************************************************)
\* the pixels of the window (one row)
InlinePixels == Cardinality(DOMAIN inline_texture_data) \div 4

\* main.rs:110-308: a redraw starts; texture_data is allocated zeroed, the
\* pipeline built, the work and the copy into the staging buffer submitted
InlineRedraw ==
    /\ inline_pc \in {"idle", "presented"}
    /\ redraws < MaxCalls
    /\ redraws' = redraws + 1
    /\ inline_texture_data' = [i \in DOMAIN inline_texture_data |-> 0]
    /\ inline_staging_buffer' = [state |-> "unmapped", bytes |-> <<>>]
    /\ inline_callback' = "none"
    /\ inline_pc' = "map_async"
    /\ UNCHANGED presented
    /\ UNCHANGED not_inline_vars

\* main.rs:314: map_async with a closure that drops its argument
InlineMapAsync ==
    /\ inline_pc = "map_async"
    /\ inline_callback' = "pending"
    /\ inline_staging_buffer' = [inline_staging_buffer EXCEPT !.state = "map_pending"]
    /\ inline_pc' = "poll"
    /\ UNCHANGED <<redraws, inline_texture_data, presented>>
    /\ UNCHANGED not_inline_vars

\* main.rs:315: device.poll(Wait) returns
InlinePoll ==
    /\ inline_pc = "poll"
    /\ inline_pc' = "get_mapped_range"
    /\ UNCHANGED <<redraws, inline_callback, inline_staging_buffer, inline_texture_data,
                   presented>>
    /\ UNCHANGED not_inline_vars

\* main.rs:317-319: get_mapped_range panics on a buffer that is not mapped;
\* otherwise the mapped bytes are copied into texture_data
InlineGetMappedRange ==
    /\ inline_pc = "get_mapped_range"
    /\ IF inline_staging_buffer.state = "mapped"
       THEN /\ inline_texture_data' = inline_staging_buffer.bytes
            /\ inline_pc' = "unmap"
       ELSE /\ inline_pc' = "panicked"
            /\ UNCHANGED inline_texture_data
    /\ UNCHANGED <<redraws, inline_callback, inline_staging_buffer, presented>>
    /\ UNCHANGED not_inline_vars

\* main.rs:320
InlineUnmap ==
    /\ inline_pc = "unmap"
    /\ inline_staging_buffer' = [state |-> "unmapped", bytes |-> <<>>]
    /\ inline_pc' = "repack"
    /\ UNCHANGED <<redraws, inline_callback, inline_texture_data, presented>>
    /\ UNCHANGED not_inline_vars

\* main.rs:322-340: the repack loop over the window, then buffer.present()
InlinePresent ==
    /\ inline_pc = "repack"
    /\ presented' = Append(presented,
                           [k \in 0 .. (InlinePixels - 1) |->
                               Shifted(inline_texture_data, TextureIndex(0, k, <<InlinePixels, 1>>))])
    /\ inline_pc' = "presented"
    /\ UNCHANGED <<redraws, inline_callback, inline_staging_buffer, inline_texture_data>>
    /\ UNCHANGED not_inline_vars

\* the device maps the staging buffer and calls the closure with Ok(())
InlineMappingSucceeds ==
    /\ inline_callback = "pending"
    /\ \E t \in Texels :
         inline_staging_buffer' =
             [state |-> "mapped",
              bytes |-> [i \in DOMAIN inline_texture_data |-> t[(i % 4) + 1]]]
    /\ inline_callback' = "Ok"
    /\ UNCHANGED <<inline_pc, redraws, inline_texture_data, presented>>
    /\ UNCHANGED not_inline_vars

\* the device fails to map the staging buffer and calls the closure with Err(..)
InlineMappingFails ==
    /\ inline_callback = "pending"
    /\ inline_staging_buffer' = [state |-> "unmapped", bytes |-> <<>>]
    /\ inline_callback' = "Err"
    /\ UNCHANGED <<inline_pc, redraws, inline_texture_data, presented>>
    /\ UNCHANGED not_inline_vars

\* a window of 1..MaxWidth pixels in one row
InlineInit ==
    /\ inline_pc = "idle"
    /\ redraws = 0
    /\ inline_callback = "none"
    /\ inline_staging_buffer = [state |-> "unmapped", bytes |-> <<>>]
    /\ \E n \in Widths : inline_texture_data = [i \in 0 .. (4 * n - 1) |-> 0]
    /\ presented = <<>>

\* C19: in the GPU branch of main.rs the host goes on to read the mapped range
\* only when the closure given to map_async has been called with Ok.
C19_InlineReadsAfterSuccess ==
    inline_pc = "get_mapped_range" => inline_callback = "Ok"

(***************************************************************************)
(* Claims about the pure functions.                                        *)
(***************************************************************************)
\* the escape_time result a stored pixel was made from
StoredFrom ==
    IF fn_args.fn = "pack" THEN fn_args.e ELSE escape_time(fn_args.c, fn_args.limit)

\* C11: a stored pixel is 0 for a bounded result and i<<16 | i<<8 | i for an escape
\* count i; with the limit 256 the count is at most 255, so the three channels
\* all hold i and the top 8 bits are zero. What escape_time returns on a point is
\* one of the values the pixel packing is checked on.
C11_GrayscaleInOneByte ==
    /\ (fn_pc = "returned" /\ fn_args.fn = "escape_time") =>
           fn_ret \in EscapeResults(fn_args.limit)
    /\ fn_pc = "stored" =>
           LET e == StoredFrom
           IN  IF e.some
               THEN /\ e.count <= 255
                    /\ fn_ret = e.count * 65536 + e.count * 256 + e.count
                    /\ fn_ret \div 65536 = e.count
                    /\ (fn_ret \div 256) % 256 = e.count
                    /\ fn_ret % 256 = e.count
                    /\ fn_ret < 2 ^ 24
               ELSE fn_ret = 0

\* the largest count the loop can return has been packed
C11_Witness ==
    /\ fn_pc = "stored"
    /\ fn_args.fn = "pack"
    /\ fn_args.e = Some(ESCAPE_LIMIT - 1)
    /\ fn_ret = 2 ^ 24 - 1

\* escape_time(c, 256) has returned
Escaped256 ==
    /\ fn_pc = "returned"
    /\ fn_args.fn = "escape_time"
    /\ fn_args.limit = ESCAPE_LIMIT

\* C12: on every point c of the grid with |c| > 2, (3,0) among them,
\* escape_time(c, 256) returns Some(i) with i <= 1.
C12_OutsideRadiusTwo ==
    (Escaped256 /\ fn_args.c[1] * fn_args.c[1] + fn_args.c[2] * fn_args.c[2] > 4) =>
        /\ fn_ret.some
        /\ fn_ret.count <= 1

\* escape_time((3,0), 256) has returned Some(1)
C12_Witness ==
    /\ Escaped256
    /\ fn_args.c = <<3, 0>>
    /\ fn_ret = Some(1)

\* |z|^2 >= 4
Bailout(z) == z[1] * z[1] + z[2] * z[2] >= 4

RECURSIVE Advance(_, _, _)
\* k times z <- z^2 + c, stopping at the first value that satisfies the bailout
Advance(z, c, k) ==
    IF k = 0 \/ Bailout(z) THEN z
    ELSE IF k = 1 THEN <<z[1] * z[1] - z[2] * z[2] + c[1], 2 * z[1] * z[2] + c[2]>>
    ELSE LET half == Advance(z, c, k \div 2)
         IN  IF Bailout(half) THEN half ELSE Advance(half, c, k - (k \div 2))

\* z_k of z_0 = 0, z_{k+1} = z_k^2 + c; past the first bailout, the value that bailed out
Orbit(c, k) == Advance(<<0, 0>>, c, k)

\* C13: escape_time(c, 256) returns None for c = (0,0), whose orbit stays at 0,
\* and for c = (-1,0), whose orbit is 0, -1, 0, -1, ...; no orbit value of the 256
\* iterations reaches squared magnitude 4.
C13_InteriorPointsBounded ==
    (Escaped256 /\ fn_args.c \in {<<0, 0>>, <<-1, 0>>}) =>
        /\ fn_ret = None
        /\ \A k \in 0 .. (ESCAPE_LIMIT - 1) :
             /\ ~Bailout(Orbit(fn_args.c, k))
             /\ Orbit(fn_args.c, k) = IF k % 2 = 0 THEN <<0, 0>> ELSE fn_args.c

\* escape_time((-1,0), 256) has returned None
C13_Witness ==
    /\ Escaped256
    /\ fn_args.c = <<-1, 0>>
    /\ fn_ret = None

\* C16: escape_time(c, limit) returns Some(i) for the smallest i < limit whose
\* orbit value z_i has |z_i|^2 >= 4, the test coming before the update, and None
\* exactly when no z_i with i < limit has; a point whose first such index is limit
\* itself gets None.
C16_FirstBailoutIndex ==
    (fn_pc = "returned" /\ fn_args.fn = "escape_time") =>
        IF fn_ret.some
        THEN /\ fn_ret.count \in 0 .. (fn_args.limit - 1)
             /\ Bailout(Orbit(fn_args.c, fn_ret.count))
             /\ \A k \in 0 .. (fn_ret.count - 1) : ~Bailout(Orbit(fn_args.c, k))
        ELSE \A k \in 0 .. (fn_args.limit - 1) : ~Bailout(Orbit(fn_args.c, k))

\* -1 + i first bails out at index 3: with limit 3 escape_time has returned None
C16_Witness ==
    /\ fn_pc = "returned"
    /\ fn_args.fn = "escape_time"
    /\ fn_args.c = <<-1, 1>>
    /\ fn_args.limit = 3
    /\ fn_ret = None
    /\ Bailout(Orbit(fn_args.c, 3))
    /\ escape_time(fn_args.c, 4) = Some(3)

\* pixel_to_view has returned
Mapped ==
    /\ fn_pc = "returned"
    /\ fn_args.fn = "pixel_to_view"

\* pixel_to_view on another pixel of the same call of render
MapOf(pixel) ==
    pixel_to_view(pixel, fn_args.upper_left, fn_args.view_resolution,
                  fn_args.window_resolution)

\* the rows below the pixel mapped
RowsBelow == (fn_args.pixel[2] + 1) .. (fn_args.window_resolution[2] - 1)

\* the real-number value of the formulas of pixel_to_view
ExactMap(pixel) ==
    <<fn_args.upper_left[1]
          + (pixel[1] * fn_args.view_resolution[1]) \div fn_args.window_resolution[1],
      fn_args.upper_left[2]
          - (pixel[2] * fn_args.view_resolution[2]) \div fn_args.window_resolution[2]>>

\* the real-number value is an f32: no operation of pixel_to_view rounds
Representable(pixel) ==
    /\ RoundF32(ExactMap(pixel)[1]) = ExactMap(pixel)[1]
    /\ RoundF32(ExactMap(pixel)[2]) = ExactMap(pixel)[2]

Partitioned == fn_pc = "returned" /\ fn_args.fn = "partition"

\* the least number of chunks of `size` that hold `len`
CeilDiv(len, size) == (len + size - 1) \div size

\* C23 (amended): the number of bands is the height divided by the band height,
\* rounded up; it is at most T plus (T - 1) / band_height rounded up; and for
\* T <= 51, where a remainder of height / T fits one band, no more than T
\* worker threads are spawned and there are at most T + 1 bands.
C23_WorkersBoundedUpToFloor ==
    Partitioned =>
        LET T == fn_ret.thread_count
        IN  /\ fn_ret.bands = CeilDiv(fn_args.window_resolution[2], fn_ret.band_height)
            /\ fn_ret.spawned = fn_ret.bands - 1
            /\ fn_ret.bands <= T + CeilDiv(T - 1, fn_ret.band_height)
            /\ T <= MIN_BAND_HEIGHT + 1 =>
                   /\ fn_ret.spawned <= T
                   /\ fn_ret.bands <= T + 1

\* with 51 threads the remainder fills a band of its own: 52 bands, 51 workers
C23_Witness ==
    /\ Partitioned
    /\ fn_ret.thread_count = MIN_BAND_HEIGHT + 1
    /\ fn_ret.band_height = MIN_BAND_HEIGHT
    /\ fn_ret.spawned = fn_ret.thread_count
    /\ fn_ret.bands = fn_ret.thread_count + 1

\* C23 (as stated): for every height and every thread count T the number of
\* worker threads is at most T and the number of bands at most T + 1.
C23_WorkersAtMostThreads ==
    Partitioned =>
        /\ fn_ret.spawned <= fn_ret.thread_count
        /\ fn_ret.bands <= fn_ret.thread_count + 1

(***************************************************************************)
(* InnerApp and the input events (main.rs).  zoom is counted in hundredths *)
(* and zoom_step in whole lines of the wheel, so that                      *)
(* zoom_step.powf(4.0) * 0.01 + 0.99 is the integer zoom_step^4 + 99.  The *)
(* centre is counted in half units and a drag moves it by the quotient     *)
(* rounded toward zero.                                                    *)
(***************************************************************************)
ElementStates == {"Pressed", "Released"}

KeyCodes == {"KeyR", "KeyG", "KeyC", "KeyX"}

\* MouseScrollDelta: lines of either sign, small and far beyond the clamp, or
\* pixels
ScrollDeltas ==
    [kind : {"LineDelta"}, dy : {-MaxLines, -1, 1, MaxLines}]
        \cup {[kind |-> "PixelDelta", dy |-> 0]}

\* MouseMotion deltas, in pixels
MotionDeltas == {<<100, 0>>, <<-100, 0>>, <<0, 100>>, <<0, -100>>}

\* f32::clamp without its lower bound
ClampAbove(x, lo, hi) == Min(x, hi)

\* f32::clamp(lo, hi), main.rs:438
Clamp(x, lo, hi) == Max(lo, Min(x, hi))

\* main.rs:444  zoom_step.powf(4.0) * 0.01 + 0.99, in hundredths
ZoomOf(step) == step * step * step * step + (ZOOM_UNIT - 1)

\* the quotient n / d rounded toward zero
TowardZero(n, d) == IF n < 0 THEN -((-n) \div d) ELSE n \div d

\* main.rs:459-460  (delta as f32 / 100.0) / zoom, in half units
PanDelta(delta) == TowardZero(2 * delta, zoom)

RECURSIVE Gcd(_, _)
Gcd(a, b) == IF b = 0 THEN a ELSE Gcd(b, a % b)

\* main.rs:63-80 and inner_app.rs:54-74.  The extents and the corner are
\* fractions <<numerator, denominator>>: 2.3 * (1.0 / zoom) is 230 over the
\* hundredths of zoom; the aspect ratio is reduced first.
center_to_start_conditions(view_center, zoom_, window_resolution_) ==
    LET g == Gcd(window_resolution_[1], window_resolution_[2])
        view_height == <<(23 * ZOOM_UNIT) \div 10, zoom_>>
        view_width == <<(window_resolution_[1] \div g) * view_height[1],
                        (window_resolution_[2] \div g) * view_height[2]>>
    IN  [top_left |-> << <<view_center[1] * view_width[2] - view_width[1],
                           2 * view_width[2]>>,
                         <<view_center[2] * view_height[2] + view_height[1],
                           2 * view_height[2]>> >>,
         view_width |-> view_width,
         view_height |-> view_height]

\* InnerApp::new, main.rs:48-59
AppInit ==
    /\ event_loop = "running"
    /\ render_with_gpu = TRUE
    /\ focused = TRUE
    /\ in_window = FALSE
    /\ left_mouse = "Released"
    /\ center_point = <<-1, 0>>
    /\ zoom = ZOOM_UNIT
    /\ zoom_step = 1

\* main.rs:368-378  WindowEvent::Focused
WindowFocused(focused_) ==
    /\ event_loop = "running"
    /\ focused' = focused_
    /\ left_mouse' = IF ~focused_ THEN "Released" ELSE left_mouse
    /\ UNCHANGED <<event_loop, render_with_gpu, in_window, center_point, zoom,
                   zoom_step>>
    /\ UNCHANGED not_app_vars

\* main.rs:379-383  WindowEvent::CursorEntered
CursorEntered ==
    /\ event_loop = "running"
    /\ in_window' = TRUE
    /\ UNCHANGED <<event_loop, render_with_gpu, focused, left_mouse,
                   center_point, zoom, zoom_step>>
    /\ UNCHANGED not_app_vars

\* main.rs:384-388  WindowEvent::CursorLeft
CursorLeft ==
    /\ event_loop = "running"
    /\ in_window' = FALSE
    /\ UNCHANGED <<event_loop, render_with_gpu, focused, left_mouse,
                   center_point, zoom, zoom_step>>
    /\ UNCHANGED not_app_vars

\* main.rs:428-451  DeviceEvent::MouseWheel
MouseWheel(delta) ==
    /\ event_loop = "running"
    /\ IF focused /\ in_window
       THEN IF delta.kind = "LineDelta"
            THEN /\ zoom_step' = Clamp(zoom_step + delta.dy, MIN_ZOOM_STEP,
                                       MAX_ZOOM_STEP)
                 /\ zoom' = ZoomOf(zoom_step')
                 /\ UNCHANGED event_loop
            ELSE /\ event_loop' = "panicked"
                 /\ UNCHANGED <<zoom, zoom_step>>
       ELSE UNCHANGED <<event_loop, zoom, zoom_step>>
    /\ UNCHANGED <<render_with_gpu, focused, in_window, left_mouse,
                   center_point>>
    /\ UNCHANGED not_app_vars

\* main.rs:452-469  DeviceEvent::MouseMotion
MouseMotion(delta) ==
    /\ event_loop = "running"
    /\ IF focused /\ in_window /\ left_mouse = "Pressed"
       THEN center_point' = <<center_point[1] + PanDelta(delta[1]),
                              center_point[2] - PanDelta(delta[2])>>
       ELSE UNCHANGED center_point
    /\ Abs(center_point'[1]) <= MaxPan
    /\ Abs(center_point'[2]) <= MaxPan
    /\ UNCHANGED <<event_loop, render_with_gpu, focused, in_window, left_mouse,
                   zoom, zoom_step>>
    /\ UNCHANGED not_app_vars

\* main.rs:470-478  DeviceEvent::Button
Button(button, state) ==
    /\ event_loop = "running"
    /\ left_mouse' = IF button = 0 THEN state ELSE left_mouse
    /\ UNCHANGED <<event_loop, render_with_gpu, focused, in_window,
                   center_point, zoom, zoom_step>>
    /\ UNCHANGED not_app_vars

\* main.rs:479-528  DeviceEvent::Key
Key(physical_key, state) ==
    /\ event_loop = "running"
    /\ IF focused /\ in_window /\ state = "Released"
       THEN CASE physical_key = "KeyR" ->
                    /\ center_point' = <<-1, 0>>
                    /\ zoom' = ZOOM_UNIT
                    /\ UNCHANGED render_with_gpu
              [] physical_key = "KeyG" ->
                    /\ render_with_gpu' = TRUE
                    /\ UNCHANGED <<center_point, zoom>>
              [] physical_key = "KeyC" ->
                    /\ render_with_gpu' = FALSE
                    /\ UNCHANGED <<center_point, zoom>>
              [] OTHER -> UNCHANGED <<center_point, zoom, render_with_gpu>>
       ELSE UNCHANGED <<center_point, zoom, render_with_gpu>>
    /\ UNCHANGED <<event_loop, focused, in_window, left_mouse, zoom_step>>
    /\ UNCHANGED not_app_vars

(***************************************************************************)
(* The camera claims.                                                      *)
(***************************************************************************)
\* the view the next redraw computes, main.rs:243 and 346
StartConditions ==
    center_to_start_conditions(center_point, zoom, WINDOW_INNER_SIZE)

\* a fraction <<numerator, denominator>> is > 0
Positive(fraction) == fraction[1] > 0 /\ fraction[2] > 0

\* C20: after any sequence of input events zoom_step is within [1, 60], zoom is
\* within [1, 129600.99], and both view extents computed by
\* center_to_start_conditions are > 0.
C20_CameraInRange ==
    /\ MIN_ZOOM_STEP <= zoom_step /\ zoom_step <= MAX_ZOOM_STEP
    /\ ZOOM_UNIT <= zoom /\ zoom <= ZoomOf(MAX_ZOOM_STEP)
    /\ Positive(StartConditions.view_width)
    /\ Positive(StartConditions.view_height)

\* the wheel was turned far beyond the upper limit after a drag had moved the
\* centre
C20_Witness ==
    /\ zoom_step = MAX_ZOOM_STEP
    /\ zoom = ZoomOf(MAX_ZOOM_STEP)
    /\ center_point # <<-1, 0>>
    /\ event_loop = "running"

\* C24: in every reachable state of the event handlers, also after key R was
\* released following wheel events, zoom is zoom_step^4 * 0.01 + 0.99.
C24_ZoomFollowsZoomStep == zoom = ZoomOf(zoom_step)

(***************************************************************************)
(* The specifications.                                                     *)
(***************************************************************************)
\* the components a specification does not run
CpuParked ==
    /\ window_resolution = <<1, 1>>
    /\ upper_left = <<0, 0>>
    /\ view_resolution = <<1, 1>>
    /\ pixels = [i \in {0} |-> StalePixel]
    /\ cpu_pc = "idle"
    /\ parallelism = 0
    /\ band_height = 0
    /\ bands = <<>>
    /\ next_band = 0
    /\ chunk = NoChunks
    /\ writers = [i \in {0} |-> {}]
    /\ cpu_calls = 0
    /\ first_frame = [done |-> FALSE, pixels |-> <<>>, bands |-> 0]

GpuParked ==
    /\ gpu_pc = "idle"
    /\ gpu_calls = 0
    /\ buffer = [i \in {0} |-> StalePixel]
    /\ result_signal = NoCalls
    /\ lock_holder = NoCalls
    /\ callback = NoCalls
    /\ output_staging_buffer = NoCalls
    /\ woken = FALSE
    /\ mapping_result = "None"
    /\ view = <<>>
    /\ buffer_index = 0
    /\ stderr = {}
    /\ returned_value = NoCalls
    /\ accesses = NoCalls
    /\ storage_texture = <<1, 1>>

PackParked ==
    /\ texture_resolution = <<1, 1>>
    /\ texture_data = [i \in 0 .. 3 |-> 0]
    /\ repacked = [k \in {0} |-> StalePixel]
    /\ shifted = [k \in {0} |-> StalePixel]
    /\ pack_pc = "done"
    /\ pack_index = 0

FnParked ==
    /\ fn_pc = "returned"
    /\ fn_args = [fn |-> "none"]
    /\ fn_ret = None

InlineParked ==
    /\ inline_pc = "idle"
    /\ redraws = 0
    /\ inline_callback = "none"
    /\ inline_staging_buffer = [state |-> "unmapped", bytes |-> <<>>]
    /\ inline_texture_data = <<>>
    /\ presented = <<>>

AppParked ==
    /\ event_loop = "parked"
    /\ render_with_gpu = TRUE
    /\ focused = TRUE
    /\ in_window = FALSE
    /\ left_mouse = "Released"
    /\ center_point = <<-1, 0>>
    /\ zoom = ZOOM_UNIT
    /\ zoom_step = 1

InitCpu == CpuInit /\ GpuParked /\ PackParked /\ FnParked /\ InlineParked /\ AppParked

NextCpu ==
    \/ CpuCall
    \/ CpuAssert
    \/ CpuPartition
    \/ CpuSpawn
    \/ CpuOwnBand
    \/ CallerRow
    \/ CallerReturn
    \/ WorkerRow
    \/ WorkerReturn
    \/ CpuJoin

SpecCpu == InitCpu /\ [][NextCpu]_vars

InitGpu == CpuParked /\ GpuInit /\ PackParked /\ FnParked /\ InlineParked /\ AppParked

NextGpu ==
    \/ GpuCall
    \/ GpuMapAsync
    \/ GpuPoll
    \/ HostLock
    \/ HostCheck
    \/ SpuriousWake
    \/ HostWake
    \/ HostMatch
    \/ HostGetMappedRange
    \/ HostRepack
    \/ HostRepackDone
    \/ HostLogError
    \/ HostUnmap
    \/ HostReturn
    \/ MappingSucceeds
    \/ MappingFails
    \/ CallbackLock
    \/ CallbackStore
    \/ CallbackNotify
    \/ CallbackDone

SpecGpu == InitGpu /\ [][NextGpu]_vars

\* SpecGpu with threads that are scheduled
SpecGpuFair == SpecGpu /\ Fairness

InitPack == CpuParked /\ GpuParked /\ PackInit /\ FnParked /\ InlineParked /\ AppParked

NextPack ==
    \/ RepackStep
    \/ RepackEnd
    \/ InlineRepackStep
    \/ InlineRepackEnd

SpecPack == InitPack /\ [][NextPack]_vars

InitFn == CpuParked /\ GpuParked /\ PackParked /\ FnInit /\ InlineParked /\ AppParked

NextFn ==
    \/ CallEscapeTime
    \/ StorePixel
    \/ CallPack
    \/ CallPixelToView

SpecFn == InitFn /\ [][NextFn]_vars

InitPartition ==
    CpuParked /\ GpuParked /\ PackParked /\ PartitionInit /\ InlineParked /\ AppParked

NextPartition == CallPartition

SpecPartition == InitPartition /\ [][NextPartition]_vars

InitInline == CpuParked /\ GpuParked /\ PackParked /\ FnParked /\ InlineInit /\ AppParked

NextInline ==
    \/ InlineRedraw
    \/ InlineMapAsync
    \/ InlinePoll
    \/ InlineGetMappedRange
    \/ InlineUnmap
    \/ InlinePresent
    \/ InlineMappingSucceeds
    \/ InlineMappingFails

SpecInline == InitInline /\ [][NextInline]_vars

InitApp == CpuParked /\ GpuParked /\ PackParked /\ FnParked /\ InlineParked /\ AppInit

NextApp ==
    \/ \E focused_ \in BOOLEAN : WindowFocused(focused_)
    \/ CursorEntered
    \/ CursorLeft
    \/ \E delta \in ScrollDeltas : MouseWheel(delta)
    \/ \E delta \in MotionDeltas : MouseMotion(delta)
    \/ \E button \in {0, 1}, state \in ElementStates : Button(button, state)
    \/ \E physical_key \in KeyCodes, state \in ElementStates :
            Key(physical_key, state)

SpecApp == InitApp /\ [][NextApp]_vars

====
